---- MODULE Spec2Model ----
(***************************************************************************)
(* A model of app.py: the quiz application's MCQ parser, its per-session   *)
(* lifecycle (index / home / generate / quiz / scoreboard), the scoring of *)
(* a submission, the notes, reasoning and download handlers, and two       *)
(* clients sharing the results folder.                                     *)
(*                                                                         *)
(* Text is modelled as a sequence of one-character strings, so that the    *)
(* parser's split / strip / replace / slice / ord operate on characters as *)
(* the Python code does.  User-facing messages and explanation texts, on   *)
(* which the code performs no character operation, are plain strings.      *)
(***************************************************************************)
EXTENDS Integers, Sequences, FiniteSets, TLC

VARIABLES
    session,    \* the Flask session of the client: a dict (function on its keys)
    results,    \* the RESULTS_FOLDER: filename -> document content
    now,        \* int(time.time())
    req,        \* the request being served last, with the environment's inputs
    resp,       \* the response to it
    calls,      \* the calls made to the generation service while serving it
    blocks,     \* parser run: what the generation service meant to emit
    mcqs,       \* parser run: the text generate_mcqs returned
    rest,       \* parser run: the pieces of mcqs.split("## MCQ") still to visit
    questions,  \* parser run: the list built by the loop of generate()
    out,        \* parser run: what the last iteration did
    pc,         \* parser run: position of the loop
    debug,      \* whether the app runs under app.run(debug=True)
    other,      \* the Flask session of the other client (its cookie)
    who         \* the client whose cookie is `session`: "A" or "B"

vars == <<session, results, now, req, resp, calls, blocks, mcqs, rest, questions, out, pc,
          debug, other, who>>
lifeVars == <<session, results, now, req, resp, calls>>
parseVars == <<blocks, mcqs, rest, questions, out, pc>>

----------------------------------------------------------------------------
(* Bounds of the model *)

\* Longest reply of the generation service, in blocks, in a parser run.
MaxBlocks == 3
\* Largest value of the clock.
MaxTime == 1
\* Longest quiz, in questions, in the runs that submit quizzes.
MaxQuiz == 2

----------------------------------------------------------------------------
(* Python's str operations, on sequences of characters *)

NL == "\n"
Whitespace == {" ", "\t", NL}

UpperLetters == <<"A","B","C","D","E","F","G","H","I","J","K","L","M",
                  "N","O","P","Q","R","S","T","U","V","W","X","Y","Z">>
LowerLetters == <<"a","b","c","d","e","f","g","h","i","j","k","l","m",
                  "n","o","p","q","r","s","t","u","v","w","x","y","z">>

Digits == <<"0","1","2","3","4","5","6","7","8","9">>

Range(f) == {f[i] : i \in DOMAIN f}
PosIn(c, letters) == CHOOSE i \in DOMAIN letters : letters[i] = c

\* str.upper() of one character.
UpperChar(c) == IF c \in Range(LowerLetters) THEN UpperLetters[PosIn(c, LowerLetters)] ELSE c

\* str.upper()
Upper(s) == [i \in DOMAIN s |-> UpperChar(s[i])]

\* ord() of one character (ASCII).
Ord(c) ==
    IF c \in Range(UpperLetters) THEN 64 + PosIn(c, UpperLetters)
    ELSE IF c \in Range(LowerLetters) THEN 96 + PosIn(c, LowerLetters)
    ELSE CASE c = NL -> 10
           [] c = "\t" -> 9
           [] c = " " -> 32
           [] c = "#" -> 35
           [] c = ")" -> 41
           [] c = "+" -> 43
           [] c = "-" -> 45
           [] c = "." -> 46
           [] c \in Range(Digits) -> 47 + PosIn(c, Digits)
           [] c = ":" -> 58
           [] c = "?" -> 63
           [] c = "@" -> 64

\* s[n:]
DropFirst(s, n) == IF Len(s) <= n THEN <<>> ELSE SubSeq(s, n + 1, Len(s))

RECURSIVE LStrip(_)
LStrip(s) == IF s # <<>> /\ Head(s) \in Whitespace THEN LStrip(Tail(s)) ELSE s

RECURSIVE RStrip(_)
RStrip(s) ==
    IF s # <<>> /\ s[Len(s)] \in Whitespace THEN RStrip(SubSeq(s, 1, Len(s) - 1)) ELSE s

\* str.strip()
Strip(s) == RStrip(LStrip(s))

\* Where sep first occurs in s (0: nowhere).
Find(s, sep) ==
    LET at == {i \in 1..(Len(s) - Len(sep) + 1) : SubSeq(s, i, i + Len(sep) - 1) = sep}
    IN  IF at = {} THEN 0 ELSE CHOOSE i \in at : \A j \in at : i <= j

\* s.split(sep): the pieces between the non-overlapping occurrences of sep, left to right.
RECURSIVE Split(_, _)
Split(s, sep) ==
    LET i == Find(s, sep)
    IN  IF i = 0 THEN <<s>>
        ELSE <<SubSeq(s, 1, i - 1)>> \o Split(DropFirst(s, i + Len(sep) - 1), sep)

RECURSIVE Concat(_)
Concat(ss) == IF ss = <<>> THEN <<>> ELSE Head(ss) \o Concat(Tail(ss))

\* s.replace(old, ""): every non-overlapping occurrence of old removed, left to right.
Remove(s, old) == Concat(Split(s, old))

RECURSIVE SelectNonEmpty(_)
SelectNonEmpty(ss) ==
    IF ss = <<>> THEN <<>>
    ELSE IF Head(ss) # <<>> THEN <<Head(ss)>> \o SelectNonEmpty(Tail(ss))
    ELSE SelectNonEmpty(Tail(ss))

----------------------------------------------------------------------------
(* The MCQ parser: the loop of generate() *)

Delim == <<"#","#"," ","M","C","Q">>
LabelQuestion == <<"Q","u","e","s","t","i","o","n",":">>
LabelCorrect == <<"C","o","r","r","e","c","t"," ","A","n","s","w","e","r",":">>

\* [line.strip() for line in mcq.split('\n') if line.strip()]
Lines(mcq) ==
    LET raw == Split(mcq, <<NL>>)
    IN  SelectNonEmpty([i \in DOMAIN raw |-> Strip(raw[i])])

\* (a parser that counts the letters from 1)
LetterIndexOff1(c) == Ord(c) - 64

\* ord(correct_answer.upper()) - 65; ord() raises TypeError unless given one character.
LetterIndex(c) == Ord(c) - 65

\* options[k] of a list of 4: Python counts a negative index from the end and
\* raises IndexError outside -4..3.
InRange(k) == k \in -4..3
PyItem(options, k) == IF k >= 0 THEN options[k + 1] ELSE options[k + 5]

NoQuestion == [question |-> <<>>, options |-> <<>>, correct_answer |-> <<>>]

\* One iteration of the for loop: the block is skipped (continue), a question
\* is appended, or the iteration raises (TypeError from ord, IndexError from
\* the subscript), which nothing in generate() catches.
ParseBlock(mcq) ==
    IF Strip(mcq) = <<>> THEN [status |-> "skip", q |-> NoQuestion]
    ELSE LET lines == Lines(mcq)
         IN  IF Len(lines) < 6 THEN [status |-> "skip", q |-> NoQuestion]
             ELSE LET question == Strip(Remove(lines[1], LabelQuestion))
                      options == <<Strip(DropFirst(lines[2], 3)),
                                   Strip(DropFirst(lines[3], 3)),
                                   Strip(DropFirst(lines[4], 3)),
                                   Strip(DropFirst(lines[5], 3))>>
                      correct_answer == Strip(Remove(lines[6], LabelCorrect))
                      up == Upper(correct_answer)
                  IN  IF Len(up) # 1 THEN [status |-> "raise", q |-> NoQuestion]
                      ELSE IF ~InRange(LetterIndex(up[1]))
                           THEN [status |-> "raise", q |-> NoQuestion]
                      ELSE [status |-> "ok",
                            q |-> [question |-> question,
                                   options |-> options,
                                   correct_answer |-> PyItem(options, LetterIndex(up[1]))]]

\* The whole loop over the pieces: the questions, or raised.
RECURSIVE ParseLoop(_, _)
ParseLoop(pieces, acc) ==
    IF pieces = <<>> THEN [raised |-> FALSE, questions |-> acc]
    ELSE LET r == ParseBlock(Head(pieces))
         IN  IF r.status = "raise" THEN [raised |-> TRUE, questions |-> acc]
             ELSE IF r.status = "ok" THEN ParseLoop(Tail(pieces), Append(acc, r.q))
             ELSE ParseLoop(Tail(pieces), acc)

ParseMCQs(text) == ParseLoop(Split(text, Delim), <<>>)

----------------------------------------------------------------------------
(* The generation service's side: a reply in the format the prompt asks for *)

Paris == <<"P","a","r","i","s">>
Rome == <<"R","o","m","e">>
Berlin == <<"B","e","r","l","i","n">>
Madrid == <<"M","a","d","r","i","d">>
Yes == <<"Y","e","s">>
No == <<"N","o">>
Maybe == <<"M","a","y","b","e">>
NoAnswerSelected == <<"N","o"," ","a","n","s","w","e","r"," ","s","e","l","e","c","t","e","d">>
QItaly == <<"C","a","p","i","t","a","l"," ","o","f"," ","I","t","a","l","y","?">>
QPick == <<"P","i","c","k"," ","o","n","e">>

\* What the service means to emit for one question: the question text, the
\* option texts, the text of its answer line, and how many of the six lines
\* of the block it really emits (cut).
Block(q, opts, ans, cut) == [q |-> q, opts |-> opts, ans |-> ans, cut |-> cut]

GoodB == Block(QItaly, <<Paris, Rome, Berlin, Madrid>>, <<"B">>, 6)
GoodLowerC == Block(QPick, <<Yes, No, NoAnswerSelected, Maybe>>, <<"c">>, 6)
ShortBlock == Block(QItaly, <<Paris, Rome, Berlin, Madrid>>, <<"B">>, 5)
BlankBlock == Block(QItaly, <<Paris, Rome, Berlin, Madrid>>, <<"B">>, 0)
LetterE == Block(QItaly, <<Paris, Rome, Berlin, Madrid>>, <<"E">>, 6)
LetterAB == Block(QItaly, <<Paris, Rome, Berlin, Madrid>>, <<"A","B">>, 6)
LetterAt == Block(QItaly, <<Paris, Rome, Berlin, Madrid>>, <<"@">>, 6)

\* The six lines of a block in the format of the prompt:
\* Question: .. / A) .. / B) .. / C) .. / D) .. / Correct Answer: ..
BlockLines(b) ==
    << LabelQuestion \o <<" ">> \o b.q,
       <<"A", ")", " ">> \o b.opts[1],
       <<"B", ")", " ">> \o b.opts[2],
       <<"C", ")", " ">> \o b.opts[3],
       <<"D", ")", " ">> \o b.opts[4],
       LabelCorrect \o <<" ">> \o b.ans >>

RECURSIVE JoinLines(_)
JoinLines(ls) == IF ls = <<>> THEN <<>> ELSE Head(ls) \o <<NL>> \o JoinLines(Tail(ls))

\* "## MCQ", then the lines the service emits, then a blank line.
RenderBlock(b) == Delim \o <<NL>> \o JoinLines(SubSeq(BlockLines(b), 1, b.cut)) \o <<NL>>

RECURSIVE RenderReply(_)
RenderReply(bs) ==
    IF bs = <<>> THEN <<>> ELSE RenderBlock(Head(bs)) \o RenderReply(Tail(bs))

\* All sequences over S of length at most n.
SeqsUpTo(S, n) == UNION {[1..k -> S] : k \in 0..n}

ParserBlocks == {GoodB, GoodLowerC, ShortBlock, BlankBlock, LetterE, LetterAB, LetterAt}

\* Five blocks of which two are malformed (too short).
FiveWithTwoShort == <<GoodB, ShortBlock, GoodLowerC, ShortBlock, GoodB>>

ParserReplies == SeqsUpTo(ParserBlocks, MaxBlocks) \cup {FiveWithTwoShort}

----------------------------------------------------------------------------
(* The lifecycle's initial state *)

EmptySession == [k \in {} |-> 0]
NoFiles == [k \in {} |-> 0]
NoRequest == [op |-> "none"]
NoResponse == [kind |-> "none"]

InitLife ==
    /\ session = EmptySession
    /\ results = NoFiles
    /\ now = 0
    /\ req = NoRequest
    /\ resp = NoResponse
    /\ calls = <<>>
    /\ debug \in BOOLEAN
    /\ other = EmptySession
    /\ who = "A"

IdleParser ==
    /\ blocks = <<>>
    /\ mcqs = <<>>
    /\ rest = <<>>
    /\ questions = <<>>
    /\ out = "none"
    /\ pc = "idle"

----------------------------------------------------------------------------
(* The session, the responses, the inputs of a request *)

Put(s, k, v) == [x \in DOMAIN s \cup {k} |-> IF x = k THEN v ELSE s[x]]
Has(s, k) == k \in DOMAIN s

\* (a handler that forgets to clear)
KeepSession(s) == s

\* session.clear()
ClearSession(s) == EmptySession

Text(body) == [kind |-> "text", status |-> 200, body |-> body]
Redirect(to) == [kind |-> "redirect", status |-> 302, to |-> to]
Page(template) == [kind |-> "page", status |-> 200, template |-> template]
Scoreboard(score, total) ==
    [kind |-> "page", status |-> 200, template |-> "scoreboard.html",
     score |-> score, total |-> total]
ErrorPage(status) == [kind |-> "error", status |-> status]

MsgBadCount == "Please enter a valid number of questions."
MsgNoInput == "Please provide either a file or a topic."
MsgExtract == "Error: Could not extract text from the uploaded file. Please try again."
MsgFileError == "Error processing file: "
MsgFailed == "Failed to generate MCQs. Please try again."
MsgNoValid == "No valid questions could be generated. Please try again."

\* What a request leaves behind when the handler returns a response.
Respond(s, r, rq, cs) ==
    /\ session' = s
    /\ resp' = r
    /\ req' = rq
    /\ calls' = cs

\* What a request leaves behind when the handler raises and nothing catches
\* it.  Flask answers with an error page and saves the session as the handler
\* left it; under app.run(debug=True) the exception propagates to the
\* debugger, no session cookie is sent, and the client keeps the session it
\* had before the request.
RaiseUncaught(sAtRaise, status, rq, cs) ==
    IF debug THEN Respond(session, ErrorPage(500), rq, cs)
    ELSE Respond(sAtRaise, ErrorPage(status), rq, cs)

Frame == UNCHANGED <<results, now, debug, other, who>> /\ UNCHANGED parseVars

----------------------------------------------------------------------------
(* GET / and GET /home *)

ClearArgs == {"", "true", "false"}

\* (an index that clears unless told not to)
ClearUnlessFalse(clear) == clear # "false"

\* request.args.get('clear') == 'true'
ClearRequested(clear) == clear = "true"

index ==
    \E clear \in ClearArgs :
        /\ Respond(IF ClearRequested(clear) THEN ClearSession(session) ELSE session,
                   Page("index.html"), [op |-> "GET /", clear |-> clear], <<>>)
        /\ Frame

home ==
    /\ Respond(ClearSession(session), Redirect("index"), [op |-> "GET /home"], <<>>)
    /\ Frame

----------------------------------------------------------------------------
(* POST /generate *)

LowerChar(c) == IF c \in Range(UpperLetters) THEN LowerLetters[PosIn(c, UpperLetters)] ELSE c
Lower(s) == [i \in DOMAIN s |-> LowerChar(s[i])]

ALLOWED_EXTENSIONS == {<<"p","d","f">>, <<"t","x","t">>, <<"d","o","c">>, <<"d","o","c","x">>}

\* '.' in filename and filename.rsplit('.', 1)[1].lower() in ALLOWED_EXTENSIONS
allowed_file(filename) ==
    LET dots == {i \in DOMAIN filename : filename[i] = "."}
    IN  /\ dots # {}
        /\ LET last == CHOOSE i \in dots : \A j \in dots : j <= i
           IN  Lower(DropFirst(filename, last)) \in ALLOWED_EXTENSIONS

RECURSIVE DigitsValue(_)
DigitsValue(d) ==
    IF d = <<>> THEN 0
    ELSE 10 * DigitsValue(SubSeq(d, 1, Len(d) - 1)) + (PosIn(d[Len(d)], Digits) - 1)

\* int(text): surrounding whitespace and one sign are allowed; anything but
\* decimal digits raises ValueError (ok = FALSE).
ParseInt(text) ==
    LET t == Strip(text)
        signed == t # <<>> /\ t[1] \in {"+", "-"}
        body == IF signed THEN Tail(t) ELSE t
        ok == body # <<>> /\ \A i \in DOMAIN body : body[i] \in Range(Digits)
    IN  [ok |-> ok,
         value |-> IF ~ok THEN 0
                   ELSE IF signed /\ t[1] = "-" THEN 0 - DigitsValue(body)
                   ELSE DigitsValue(body)]

\* request.form['num_questions']: absent, or the text of the field.
NumForms ==
    { [present |-> FALSE, value |-> <<>>],
      [present |-> TRUE, value |-> <<"a","b","c">>],
      [present |-> TRUE, value |-> <<"0">>],
      [present |-> TRUE, value |-> <<"-","1">>],
      [present |-> TRUE, value |-> <<"2">>] }

\* request.files.get('file'): its filename; <<>> when no file was sent (a
\* FileStorage without a filename is falsy, like None).
NotesTxt == <<"n",".","t","x","t">>
NotesExe == <<"n",".","e","x","e">>
Filenames == {<<>>, NotesTxt, NotesExe}

\* request.form.get('topic'): "" stands for an absent and for an empty topic
\* (both falsy).
Topics == {"", "Italy"}

\* request.form.get('difficulty', 'easy')
Difficulties == {"easy", "bogus"}
difficulty_prompts == {"easy", "intermediate", "hard"}

\* extract_text_from_file: the text, or "" for None or no text (both falsy).
Extractions == {"", "Rome is the capital of Italy."}

TopicBranch(file, topic) == file = <<>> /\ topic # ""
FileBranch(file, topic) == ~TopicBranch(file, topic) /\ file # <<>> /\ allowed_file(file)

\* The source of a request: file, topic, whether file.save succeeds and what
\* the extraction returns (save_ok and extracted matter on the file branch
\* only, and extracted only once the file is saved).
Sources ==
    { src \in [file : Filenames, topic : Topics, save_ok : BOOLEAN, extracted : Extractions] :
        /\ ~FileBranch(src.file, src.topic) => (src.save_ok /\ src.extracted = "")
        /\ ~src.save_ok => src.extracted = "" }

\* secure_filename keeps ASCII letters, digits and dots: it returns the file
\* names of this model as they are.
secure_filename(filename) == filename

\* os.path.join(UPLOAD_FOLDER, f"{timestamp}_{filename}")
file_path(timestamp, filename) ==
    [folder |-> "uploads/", timestamp |-> timestamp, filename |-> secure_filename(filename)]

\* The prompt generate_mcqs builds: the file-based or the topic-based variant.
\* Only the topic-based variant carries the difficulty's instruction.
generate_mcqs(input_data, num_questions, difficulty, is_file) ==
    [kind |-> "mcqs",
     variant |-> IF is_file THEN "file" ELSE "topic",
     content |-> input_data.content,
     num_questions |-> num_questions,
     difficulty |-> IF is_file THEN "" ELSE difficulty]

\* The replies of the generation service to the prompt: an error (ok = FALSE),
\* or a text, given by the blocks it renders (no block: the empty text).
LifeReplies ==
    { [ok |-> FALSE, blocks |-> <<>>],
      [ok |-> TRUE, blocks |-> <<>>],
      [ok |-> TRUE, blocks |-> <<ShortBlock>>],
      [ok |-> TRUE, blocks |-> <<LetterE>>],
      [ok |-> TRUE, blocks |-> <<GoodB>>],
      [ok |-> TRUE, blocks |-> <<ShortBlock, GoodB>>] }

\* The replies in the runs that submit quizzes: well-formed blocks only.
SubmitBlocks == {GoodB, GoodLowerC}
SubmitReplies == [ok : {TRUE}, blocks : SeqsUpTo(SubmitBlocks, MaxQuiz) \ {<<>>}]

GenerateRequest(num, src) ==
    [op |-> "POST /generate", num_questions |-> num, source |-> src]
ServiceRequest(num, src, difficulty, reply) ==
    [op |-> "POST /generate", num_questions |-> num, source |-> src,
     difficulty |-> difficulty, reply |-> reply]

\* request.form['num_questions'] raises BadRequestKeyError (a KeyError, not the
\* ValueError the handler catches): a 400 response.
GenerateMissingCount ==
    \E num \in {n \in NumForms : ~n.present} :
        /\ RaiseUncaught(ClearSession(session), 400,
                         [op |-> "POST /generate", num_questions |-> num], <<>>)
        /\ Frame

\* int(...) raises ValueError.
BadCounts == {n \in NumForms : n.present /\ ~ParseInt(n.value).ok}

GenerateBadCount ==
    \E num \in BadCounts :
        /\ Respond(ClearSession(session), Text(MsgBadCount),
                   [op |-> "POST /generate", num_questions |-> num], <<>>)
        /\ Frame

CountAccepted(num) == num.present /\ ParseInt(num.value).ok

\* The requests that pass int(...), as <<num, src>>.
Counted == {n \in NumForms : CountAccepted(n)} \X Sources

\* Neither branch: "Please provide either a file or a topic."
NoInputRequests ==
    {r \in Counted : ~TopicBranch(r[2].file, r[2].topic) /\ ~FileBranch(r[2].file, r[2].topic)}

GenerateNoInput ==
    \E r \in NoInputRequests :
        /\ Respond(ClearSession(session), Text(MsgNoInput), GenerateRequest(r[1], r[2]), <<>>)
        /\ Frame

\* An exception inside the try of the file branch (file.save, makedirs).
FileErrorRequests ==
    {r \in Counted : FileBranch(r[2].file, r[2].topic) /\ ~r[2].save_ok}

GenerateFileError ==
    \E r \in FileErrorRequests :
        /\ Respond(ClearSession(session), Text(MsgFileError), GenerateRequest(r[1], r[2]), <<>>)
        /\ Frame

\* if not file_content: the extraction returned None or no text.
ExtractFailRequests ==
    {r \in Counted : FileBranch(r[2].file, r[2].topic) /\ r[2].save_ok /\ r[2].extracted = ""}

GenerateExtractFail ==
    \E r \in ExtractFailRequests :
        /\ Respond(ClearSession(session), Text(MsgExtract), GenerateRequest(r[1], r[2]), <<>>)
        /\ Frame

\* The request reaches generate_mcqs(input_data, num_questions, difficulty).
ReachesService(num, src) ==
    /\ CountAccepted(num)
    /\ \/ TopicBranch(src.file, src.topic)
       \/ FileBranch(src.file, src.topic) /\ src.save_ok /\ src.extracted # ""

ServiceRequests == {r \in Counted : ReachesService(r[1], r[2])}

InputData(src) ==
    IF TopicBranch(src.file, src.topic)
    THEN [content |-> src.topic, is_file |-> FALSE]
    ELSE [content |-> src.extracted, is_file |-> TRUE]

\* The session when generate_mcqs is called: cleared, and on the file branch
\* holding session['current_file'].
SessionAtService(s, src) ==
    IF InputData(src).is_file
    THEN Put(ClearSession(s), "current_file", file_path(now, src.file))
    ELSE ClearSession(s)

\* generate() passes no is_file: the parameter keeps its default, False.
PromptSent(num, src, difficulty) ==
    generate_mcqs(InputData(src), ParseInt(num.value).value, difficulty, FALSE)

\* difficulty_prompts[difficulty] raises KeyError while the prompt is built,
\* outside generate_mcqs's try.
GenerateBadDifficulty ==
    \E r \in ServiceRequests, difficulty \in Difficulties \ difficulty_prompts :
        /\ RaiseUncaught(SessionAtService(session, r[2]), 500,
                         [op |-> "POST /generate", num_questions |-> r[1], source |-> r[2],
                          difficulty |-> difficulty], <<>>)
        /\ Frame

\* The text generate_mcqs returns: <<>> stands for None and for the empty text.
ReplyText(reply) == IF reply.ok THEN RenderReply(reply.blocks) ELSE <<>>

\* What the loop of generate() makes of every reply of the model.
Replies == LifeReplies \cup SubmitReplies
Parsed == [reply \in Replies |-> ParseMCQs(ReplyText(reply))]

\* if not mcqs
FailedReplies == {reply \in LifeReplies : ReplyText(reply) = <<>>}
RaisingReplies == {reply \in LifeReplies : ReplyText(reply) # <<>> /\ Parsed[reply].raised}
\* if not questions
EmptyReplies ==
    {reply \in LifeReplies :
        ReplyText(reply) # <<>> /\ ~Parsed[reply].raised /\ Parsed[reply].questions = <<>>}
StoringReplies ==
    {reply \in Replies :
        ReplyText(reply) # <<>> /\ ~Parsed[reply].raised /\ Parsed[reply].questions # <<>>}

GenerateFailed ==
    \E r \in ServiceRequests, difficulty \in Difficulties \cap difficulty_prompts,
       reply \in FailedReplies :
        /\ Respond(SessionAtService(session, r[2]), Text(MsgFailed),
                   ServiceRequest(r[1], r[2], difficulty, reply),
                   <<PromptSent(r[1], r[2], difficulty)>>)
        /\ Frame

GenerateParseRaises ==
    \E r \in ServiceRequests, difficulty \in Difficulties \cap difficulty_prompts,
       reply \in RaisingReplies :
        /\ RaiseUncaught(SessionAtService(session, r[2]), 500,
                         ServiceRequest(r[1], r[2], difficulty, reply),
                         <<PromptSent(r[1], r[2], difficulty)>>)
        /\ Frame

GenerateNoQuestions ==
    \E r \in ServiceRequests, difficulty \in Difficulties \cap difficulty_prompts,
       reply \in EmptyReplies :
        /\ Respond(SessionAtService(session, r[2]), Text(MsgNoValid),
                   ServiceRequest(r[1], r[2], difficulty, reply),
                   <<PromptSent(r[1], r[2], difficulty)>>)
        /\ Frame

\* The session a successful generation stores.
StoredSession(s, src, qs) ==
    LET s1 == Put(SessionAtService(s, src), "questions", qs)
    IN  IF InputData(src).is_file
        THEN Put(s1, "original_input_text", InputData(src).content)
        ELSE s1

GenerateStoredFrom(requests, replies) ==
    \E r \in requests, difficulty \in Difficulties \cap difficulty_prompts, reply \in replies :
        /\ Respond(StoredSession(session, r[2], Parsed[reply].questions), Redirect("quiz"),
                   ServiceRequest(r[1], r[2], difficulty, reply),
                   <<PromptSent(r[1], r[2], difficulty)>>)
        /\ Frame

GenerateStored == GenerateStoredFrom(ServiceRequests, StoringReplies \cap LifeReplies)

\* The requests the handler rejects with a message before any generation.
GenerateRejected ==
    \/ GenerateBadCount
    \/ GenerateNoInput
    \/ GenerateFileError
    \/ GenerateExtractFail

generate ==
    \/ GenerateMissingCount
    \/ GenerateRejected
    \/ GenerateBadDifficulty
    \/ GenerateFailed
    \/ GenerateParseRaises
    \/ GenerateNoQuestions
    \/ GenerateStored

----------------------------------------------------------------------------
(* GET /quiz and POST /quiz *)

\* request.form.get(f"question_{i}"): absent, or the text submitted.
Absent == [present |-> FALSE, value |-> <<>>]
Given(text) == [present |-> TRUE, value |-> text]

\* if not user_answer: user_answer = "No answer selected"
UserAnswer(a) == IF ~a.present \/ a.value = <<>> THEN NoAnswerSelected ELSE a.value

\* The outcomes of one explanation call: the text of the response, or an error.
Explained == [ok |-> TRUE, text |-> "Because it is."]
ExplainFailed == [ok |-> FALSE, text |-> ""]
ExplainOutcomes == {Explained, ExplainFailed}

FallbackExplanation == "Explanation not available."

\* (a handler without the fallback)
ExplanationNoFallback(o) == o.text

\* try: explanation = response.text / except: explanation = fallback
Explanation(o) == IF o.ok THEN o.text ELSE FallbackExplanation

\* The entry user_answers gets for one question.
Graded(q, a, o) ==
    [question |-> q.question,
     options |-> q.options,
     correct_answer |-> q.correct_answer,
     user_answer |-> UserAnswer(a),
     is_correct |-> (UserAnswer(a) = q.correct_answer),
     explanation |-> Explanation(o)]

\* The loop over enumerate(questions): user_answers.
GradeAll(qs, form, expl) == [i \in DOMAIN qs |-> Graded(qs[i], form[i], expl[i])]

\* score += 1 for every correct answer.
RECURSIVE ScoreOf(_)
ScoreOf(ua) ==
    IF ua = <<>> THEN 0
    ELSE ScoreOf(SubSeq(ua, 1, Len(ua) - 1)) + (IF ua[Len(ua)].is_correct THEN 1 ELSE 0)

\* The prompt of one explanation call.
ExplainPrompt(q) ==
    [kind |-> "explain", question |-> q.question, correct_answer |-> q.correct_answer]

\* create_pdf: the score line, then every question with its options, each
\* marked "(Correct Answer)", else "(Your Answer)", else unmarked.  FPDF is
\* taken to render whatever it is given.
OptionStatus(ans, option) ==
    IF option = ans.correct_answer THEN "(Correct Answer)"
    ELSE IF option = ans.user_answer THEN "(Your Answer)"
    ELSE ""

create_pdf(user_answers, score, total) ==
    [score |-> score,
     total |-> total,
     entries |-> [i \in DOMAIN user_answers |->
                    [question |-> user_answers[i].question,
                     options |-> [j \in DOMAIN user_answers[i].options |->
                                    [option |-> user_answers[i].options[j],
                                     status |-> OptionStatus(user_answers[i],
                                                             user_answers[i].options[j])]]]]]

ResultsPdf == "results.pdf"

\* if 'questions' not in session: return redirect(url_for('index'))
QuizRedirect ==
    \E method \in {"GET", "POST"} :
        /\ ~Has(session, "questions")
        /\ Respond(session, Redirect("index"), [op |-> method \o " /quiz"], <<>>)
        /\ Frame

QuizGet ==
    /\ Has(session, "questions")
    /\ Respond(session, Page("quiz.html"), [op |-> "GET /quiz"], <<>>)
    /\ Frame

\* The answers a form may carry for one question, in the lifecycle.
LifeAnswers == {Absent, Given(Rome)}

QuizPostFrom(answers) ==
    /\ Has(session, "questions")
    /\ LET qs == session["questions"]
       IN  \E form \in [DOMAIN qs -> answers], expl \in [DOMAIN qs -> ExplainOutcomes] :
             LET user_answers == GradeAll(qs, form, expl)
                 score == ScoreOf(user_answers)
             IN  /\ Respond(Put(Put(Put(session, "user_answers", user_answers),
                                    "score", score), "total", Len(qs)),
                            Scoreboard(score, Len(qs)),
                            [op |-> "POST /quiz", form |-> form, explanations |-> expl],
                            [i \in DOMAIN qs |-> ExplainPrompt(qs[i])])
                 /\ results' = Put(results, ResultsPdf, create_pdf(user_answers, score, Len(qs)))
    /\ UNCHANGED <<now, debug, other, who>>
    /\ UNCHANGED parseVars

QuizPost == QuizPostFrom(LifeAnswers)

quiz == QuizRedirect \/ QuizGet \/ QuizPost

----------------------------------------------------------------------------
(* GET /scoreboard *)

PyNone == "None"

\* f'study_notes_{timestamp}.pdf'
notes_filename(timestamp) == "study_notes_" \o ToString(timestamp) \o ".pdf"

\* The outcomes of the notes generation: the text of the response, or an
\* error anywhere in the try.
NotesOutcomes == {[ok |-> TRUE, text |-> "Notes."], [ok |-> FALSE, text |-> ""]}

\* The notes document rendered from the response text.
NotesPdf(text) == [title |-> "Study Notes", content |-> text]

\* The quiz content the notes prompt is built from: Q / A / E of every answer.
NotesPrompt(user_answers) ==
    [kind |-> "notes",
     items |-> [i \in DOMAIN user_answers |->
                  [question |-> user_answers[i].question,
                   correct_answer |-> user_answers[i].correct_answer,
                   explanation |-> user_answers[i].explanation]]]

Graded0(s) == IF Has(s, "user_answers") THEN s["user_answers"] ELSE <<>>

\* (a scoreboard that does not read the stored score)
ScoreZero(s) == 0

\* session.get('score', 0), session.get('total', 0)
Score0(s) == IF Has(s, "score") THEN s["score"] ELSE 0
Total0(s) == IF Has(s, "total") THEN s["total"] ELSE 0

\* if not user_answers or total == 0: return redirect(url_for('index'))
ScoreboardRedirect ==
    /\ Graded0(session) = <<>> \/ Total0(session) = 0
    /\ Respond(session, Redirect("index"), [op |-> "GET /scoreboard"], <<>>)
    /\ Frame

ScoreboardNotes ==
    /\ ~(Graded0(session) = <<>> \/ Total0(session) = 0)
    /\ \E notes \in NotesOutcomes :
         /\ Respond(Put(session, "current_notes_file",
                        IF notes.ok THEN notes_filename(now) ELSE PyNone),
                    Scoreboard(Score0(session), Total0(session)),
                    [op |-> "GET /scoreboard", notes |-> notes],
                    <<NotesPrompt(Graded0(session))>>)
         /\ results' = IF notes.ok
                       THEN Put(results, notes_filename(now), NotesPdf(notes.text))
                       ELSE results
    /\ UNCHANGED <<now, debug, other, who>>
    /\ UNCHANGED parseVars

scoreboard == ScoreboardRedirect \/ ScoreboardNotes

----------------------------------------------------------------------------
(* POST /get_reasoning, POST /generate_notes, GET /download/<filename> *)

Json(status, body) == [kind |-> "json", status |-> status, body |-> body]

\* request.get_json(): the (question, correct_answer) pair of the body, or no
\* JSON body at all, on which data.get raises inside the try.
ReasoningBodies ==
    {[present |-> TRUE, question |-> QItaly, correct_answer |-> Rome],
     [present |-> FALSE, question |-> <<>>, correct_answer |-> <<>>]}

ReasoningPrompt(data) ==
    [kind |-> "reasoning", question |-> data.question, correct_answer |-> data.correct_answer]

get_reasoning ==
    \E data \in ReasoningBodies, o \in ExplainOutcomes :
        /\ (~data.present) => ~o.ok
        /\ Respond(session,
                   IF data.present /\ o.ok
                   THEN Json(200, [status |-> "success", reasoning |-> o.text])
                   ELSE Json(500, [status |-> "error"]),
                   [op |-> "POST /get_reasoning", data |-> data, outcome |-> o],
                   IF data.present THEN <<ReasoningPrompt(data)>> ELSE <<>>)
        /\ Frame

\* if not user_answers: return jsonify(status='error', ...), 400
GenerateNotesNoQuiz ==
    /\ Graded0(session) = <<>>
    /\ Respond(session, Json(400, [status |-> "error"]), [op |-> "POST /generate_notes"], <<>>)
    /\ Frame

\* The notes document is written under f'study_notes_{timestamp}.pdf'; the
\* session is not written.
GenerateNotesWrite ==
    /\ Graded0(session) # <<>>
    /\ \E notes \in NotesOutcomes :
         /\ Respond(session,
                    IF notes.ok
                    THEN Json(200, [status |-> "success", notes_path |-> notes_filename(now)])
                    ELSE Json(500, [status |-> "error"]),
                    [op |-> "POST /generate_notes", notes |-> notes],
                    <<NotesPrompt(Graded0(session))>>)
         /\ results' = IF notes.ok
                       THEN Put(results, notes_filename(now), NotesPdf(notes.text))
                       ELSE results
    /\ UNCHANGED <<now, debug, other, who>>
    /\ UNCHANGED parseVars

generate_notes == GenerateNotesNoQuiz \/ GenerateNotesWrite

\* The filenames a client asks for.
Downloads == {ResultsPdf, notes_filename(0)}

FileNotFound == [kind |-> "text", status |-> 404, body |-> "File not found"]
SendFile(filename, content) ==
    [kind |-> "file", status |-> 200, filename |-> filename, content |-> content]

\* os.path.exists(file_path), then send_file(file_path, as_attachment=True)
download_file ==
    \E filename \in Downloads :
        /\ Respond(session,
                   IF filename \in DOMAIN results
                   THEN SendFile(filename, results[filename])
                   ELSE FileNotFound,
                   [op |-> "GET /download", filename |-> filename], <<>>)
        /\ Frame

----------------------------------------------------------------------------
(* The lifecycle of one session *)

\* time.time() advances.
Tick ==
    /\ now < MaxTime
    /\ now' = now + 1
    /\ UNCHANGED <<session, results, req, resp, calls, debug, other, who>>
    /\ UNCHANGED parseVars

Init == InitLife /\ IdleParser

Next ==
    \/ index \/ home \/ generate \/ quiz \/ scoreboard
    \/ get_reasoning \/ generate_notes \/ download_file
    \/ Tick

Spec == Init /\ [][Next]_vars

----------------------------------------------------------------------------
(* A run of the parser alone, one iteration of the loop per step *)

InitParse ==
    /\ InitLife
    /\ blocks \in ParserReplies
    /\ mcqs = RenderReply(blocks)
    /\ rest = Split(mcqs, Delim)
    /\ questions = <<>>
    /\ out = "none"
    /\ pc = "loop"

ParseStep ==
    /\ pc = "loop"
    /\ rest # <<>>
    /\ LET r == ParseBlock(Head(rest))
       IN  /\ out' = r.status
           /\ questions' = IF r.status = "ok" THEN Append(questions, r.q) ELSE questions
           /\ pc' = IF r.status = "raise" THEN "raised" ELSE "loop"
    /\ rest' = Tail(rest)
    /\ UNCHANGED <<blocks, mcqs, debug, other, who>>
    /\ UNCHANGED lifeVars

ParseEnd ==
    /\ pc = "loop"
    /\ rest = <<>>
    /\ pc' = "done"
    /\ UNCHANGED <<blocks, mcqs, rest, questions, out, debug, other, who>>
    /\ UNCHANGED lifeVars

NextParse == ParseStep \/ ParseEnd

SpecParse == InitParse /\ [][NextParse]_vars

\* The block the last iteration visited (0: the text before the first "## MCQ").
Visited == Len(blocks) - Len(rest)

\* A block of the expected shape: all six lines, and an answer line that is
\* one letter A-D in either case.
LettersAD == {<<"A">>, <<"B">>, <<"C">>, <<"D">>, <<"a">>, <<"b">>, <<"c">>, <<"d">>}
WellFormed(b) == b.cut >= 6 /\ b.ans \in LettersAD

\* A->0, B->1, C->2, D->3, as a position of the option list.
OptionOf(b) ==
    CASE b.ans \in {<<"A">>, <<"a">>} -> b.opts[1]
      [] b.ans \in {<<"B">>, <<"b">>} -> b.opts[2]
      [] b.ans \in {<<"C">>, <<"c">>} -> b.opts[3]
      [] b.ans \in {<<"D">>, <<"d">>} -> b.opts[4]

QuestionOf(b) == [question |-> b.q, options |-> b.opts, correct_answer |-> OptionOf(b)]

RECURSIVE QuestionsOf(_)
QuestionsOf(bs) ==
    IF bs = <<>> THEN <<>>
    ELSE IF WellFormed(Head(bs)) THEN <<QuestionOf(Head(bs))>> \o QuestionsOf(Tail(bs))
    ELSE QuestionsOf(Tail(bs))

\* C2: the parsing step never raises, and its result is exactly the
\* well-formed blocks of the reply, in their order; every other block is
\* skipped.
C2_TolerantParsing ==
    /\ pc # "raised"
    /\ pc = "done" => questions = QuestionsOf(blocks)

\* C3: a well-formed block (six lines, answer letter A-D in either case)
\* yields a question with the block's four options in order, whose correct
\* answer is the text of the option at the letter's index, not the letter.
C3_LetterMapping ==
    (pc \in {"loop", "done", "raised"} /\ Visited >= 1 /\ WellFormed(blocks[Visited]))
        => /\ out = "ok"
           /\ questions # <<>>
           /\ questions[Len(questions)] = QuestionOf(blocks[Visited])
           /\ Len(questions[Len(questions)].options) = 4

\* The spec's example: options [Paris, Rome, Berlin, Madrid] with letter B
\* were just parsed, and the correct answer is Rome.
C3_Witness ==
    /\ Visited >= 1
    /\ blocks[Visited] = GoodB
    /\ out = "ok"
    /\ questions[Len(questions)].correct_answer = Rome

----------------------------------------------------------------------------
(* Runs that generate one quiz from a topic and submit it once *)

SubmitRequests ==
    {r \in ServiceRequests : r[1].value = <<"2">> /\ TopicBranch(r[2].file, r[2].topic)}

\* The answers a form may carry for one question: none, the empty text, an
\* option, an option in another case, the text "No answer selected".
SubmitAnswers ==
    {Absent, Given(<<>>), Given(Paris), Given(Rome), Given(<<"r","o","m","e">>),
     Given(NoAnswerSelected)}

GenerateOnce ==
    /\ req = NoRequest
    /\ GenerateStoredFrom(SubmitRequests, SubmitReplies)

SubmitOnce ==
    /\ ~Has(session, "user_answers")
    /\ QuizPostFrom(SubmitAnswers)

NextSubmit == GenerateOnce \/ QuizGet \/ SubmitOnce

SpecSubmit == Init /\ [][NextSubmit]_vars

\* The last request was a submission of the stored quiz.
Submitted == req.op = "POST /quiz" /\ Has(session, "user_answers")

\* C1: the stored score is the number of questions whose submitted answer text
\* equals the stored correct-answer text exactly, the stored total is the
\* number of questions, and a question with no submitted answer is counted as
\* incorrect, whatever the option texts are.
C1_Scoring ==
    Submitted =>
        LET qs == session["questions"]
            ua == session["user_answers"]
        IN  /\ session["score"] =
                 Cardinality({i \in DOMAIN qs :
                                /\ req.form[i].present
                                /\ req.form[i].value = qs[i].correct_answer})
            /\ session["total"] = Len(qs)
            /\ \A i \in DOMAIN qs :
                 (~req.form[i].present \/ req.form[i].value = <<>>) => ~ua[i].is_correct

----------------------------------------------------------------------------
(* The lifecycle's claims *)

IsGenerate == req.op = "POST /generate"
Field(r, name) == name \in DOMAIN r

QuizKeys == {"questions", "user_answers", "score", "total"}

\* A reply with no well-formed block: absent, empty, or entirely malformed.
NothingWellFormed(reply) ==
    ~reply.ok \/ \A i \in DOMAIN reply.blocks : ~WellFormed(reply.blocks[i])

\* C4: a session that holds 'questions' holds a non-empty sequence; a
\* generation whose reply is empty, absent or entirely malformed returns a
\* failure message, not a redirect to the quiz, and leaves the session without
\* questions.
C4_NoDegenerateActive ==
    /\ Has(session, "questions") => session["questions"] # <<>>
    /\ (IsGenerate /\ Field(req, "reply") /\ NothingWellFormed(req.reply)) =>
          /\ resp.kind = "text"
          /\ resp.body \in {MsgFailed, MsgNoValid}
          /\ ~Has(session, "questions")

\* C5: after GET /home, after GET / with the reset parameter, and after a
\* POST /generate that does not end in a stored quiz, the session holds none
\* of questions, user answers, score, total; a GET /quiz then redirects to the
\* entry point.
C5_Reset ==
    /\ ( \/ req.op = "GET /home"
         \/ req.op = "GET /" /\ req.clear = "true"
         \/ IsGenerate /\ resp # Redirect("quiz") )
          => QuizKeys \cap DOMAIN session = {}
    /\ (req.op = "GET /quiz" /\ ~Has(session, "questions")) => resp = Redirect("index")

PositiveCount(num) == num.present /\ ParseInt(num.value).ok /\ ParseInt(num.value).value > 0
UsableSource(src) ==
    \/ src.topic # ""
    \/ src.file # <<>> /\ src.save_ok /\ src.extracted # ""

\* C7: a POST /generate calls the generation service, and can store a quiz,
\* only if the count is a positive integer and the request carries a topic or
\* a file whose text was extracted; any other request is rejected (with a
\* message or an error page), calls no service, and the session the handler
\* leaves holds no questions.
C7_GenerationGuard ==
    IsGenerate =>
        LET guarded == /\ PositiveCount(req.num_questions)
                       /\ Field(req, "source")
                       /\ UsableSource(req.source)
        IN  /\ (calls # <<>> \/ resp = Redirect("quiz")) => guarded
            /\ ~guarded => /\ resp.kind \in {"text", "error"}
                           /\ calls = <<>>
                           /\ debug \/ ~Has(session, "questions")

\* C8: after a POST /generate that ends in a generation failure or in zero
\* parsed questions, the session retains nothing the request wrote: no
\* questions, no source text, no file path.
C8_NoPartialState ==
    (IsGenerate /\ resp.kind = "text" /\ resp.body \in {MsgFailed, MsgNoValid})
        => session = EmptySession

RejectMessages == {MsgBadCount, MsgNoInput, MsgFileError, MsgExtract}

\* C9, as claimed: a POST /generate rejected for an input-validation or an
\* extraction error leaves the session exactly as it was before the request.
C9_RejectedKeepsState == [][GenerateRejected => session' = session]_vars

\* C9, amended: a POST /generate rejected for an input-validation or an
\* extraction error writes nothing to the session and leaves it empty: the
\* handler clears the session before it validates, so a session in Active or
\* Submitted loses its questions, graded answers, score and total, and only a
\* session that held nothing is as it was before.
C9_RejectedLeavesEmpty ==
    (IsGenerate /\ resp.kind = "text" /\ resp.body \in RejectMessages) => session = EmptySession

\* A request without topic or usable file was just rejected, in a session
\* whose quiz had been submitted (its results document is in storage).
C9_Witness ==
    /\ IsGenerate
    /\ resp = Text(MsgNoInput)
    /\ session = EmptySession
    /\ ResultsPdf \in DOMAIN results

InQuiz(s) == Has(s, "questions") \/ Has(s, "user_answers")

\* C10, as claimed: whenever a session in Active or Submitted returns to the
\* entry page (GET / with or without the reset parameter, or GET /home), it
\* holds no questions and no graded answers afterwards.
C10_EntryClears == [][((index \/ home) /\ InQuiz(session)) => ~InQuiz(session')]_vars

\* C10, amended: a session that returns to the entry page through GET /home
\* or through GET / with clear=true is cleared, so that it holds no questions
\* and no graded answers and GET /quiz and GET /scoreboard redirect to the
\* entry point; GET / without clear=true leaves the session as it is.
C10_ResetClears ==
    /\ []( /\ (req.op = "GET /home" \/ (req.op = "GET /" /\ req.clear = "true"))
                => session = EmptySession
           /\ (req.op = "GET /quiz" /\ ~Has(session, "questions"))
                => resp = Redirect("index")
           /\ (req.op = "GET /scoreboard" /\ ~Has(session, "user_answers"))
                => resp = Redirect("index") )
    /\ [][(index /\ req'.clear # "true") => session' = session]_vars

\* GET /?clear=true was just served in a session whose quiz had been
\* submitted (its results document is in storage), and the session is empty.
C10_Witness ==
    /\ req.op = "GET /"
    /\ req.clear = "true"
    /\ session = EmptySession
    /\ ResultsPdf \in DOMAIN results

\* C11: GET /scoreboard on a Submitted session leaves the stored questions,
\* graded answers, score and total as they are, whether the notes generation
\* succeeds or fails: only 'current_notes_file' may change, and the page
\* shows the stored score and total, on every call.
C11_ScoreboardIdempotent ==
    [][ScoreboardNotes =>
          /\ DOMAIN session' = DOMAIN session \cup {"current_notes_file"}
          /\ \A k \in DOMAIN session \ {"current_notes_file"} : session'[k] = session[k]
          /\ resp' = Scoreboard(session["score"], session["total"])
          /\ resp'.score = session'["score"] /\ resp'.total = session'["total"]]_vars

\* The scoreboard of a submitted quiz with score 1 was just served for the
\* second time at least: an earlier call wrote its notes document, the notes
\* generation of this one failed, and the page shows score 1.
C11_Witness ==
    /\ req.op = "GET /scoreboard"
    /\ Field(req, "notes") /\ ~req.notes.ok
    /\ session["current_notes_file"] = PyNone
    /\ notes_filename(0) \in DOMAIN results
    /\ Has(session, "questions")
    /\ session["score"] = 1
    /\ resp = Scoreboard(1, session["total"])

\* A step in which a notes generation succeeded and wrote its document.
NotesWritten == (ScoreboardNotes \/ GenerateNotesWrite) /\ req'.notes.ok

\* C12: every successful notes generation, by GET /scoreboard or by
\* POST /generate_notes, writes its document under a filename no earlier
\* notes generation used: it adds one document to storage and replaces none.
C12_NotesNeverOverwritten ==
    [][NotesWritten =>
          /\ \A f \in DOMAIN results : f \in DOMAIN results' /\ results'[f] = results[f]
          /\ Cardinality(DOMAIN results') = Cardinality(DOMAIN results) + 1
          /\ \E f \in DOMAIN results' \ DOMAIN results : results'[f] = NotesPdf(req'.notes.text)]_vars

\* C13: the prompt POST /generate sends to the generation service is the
\* file-based variant exactly when the source is an uploaded file and the
\* topic-based variant exactly when it is a topic; it is the prompt
\* generate_mcqs builds from (content, question count, difficulty, source
\* kind), the same for equal inputs.
C13_PromptBySource ==
    (IsGenerate /\ calls # <<>>) =>
        LET input_data == InputData(req.source)
        IN  /\ Len(calls) = 1
            /\ calls[1].variant = (IF FileBranch(req.source.file, req.source.topic)
                                   THEN "file" ELSE "topic")
            /\ calls[1] = generate_mcqs(input_data, ParseInt(req.num_questions.value).value,
                                        req.difficulty, input_data.is_file)

----------------------------------------------------------------------------
(* Two clients, each with its own session cookie, served by the one         *)
(* application: `session` is the cookie of the client being served, `other` *)
(* the cookie of the client that waits.  Both share the RESULTS_FOLDER.     *)

\* The next request comes from the other client.
Switch ==
    /\ session' = other
    /\ other' = session
    /\ who' = IF who = "A" THEN "B" ELSE "A"
    /\ req' = NoRequest
    /\ resp' = NoResponse
    /\ calls' = <<>>
    /\ UNCHANGED <<results, now, debug>>
    /\ UNCHANGED parseVars

TwoReplies == {[ok |-> TRUE, blocks |-> <<GoodB>>]}

\* The client generates its quiz, once.
GenerateTwo ==
    /\ ~Has(session, "questions")
    /\ GenerateStoredFrom(SubmitRequests, TwoReplies)

\* The client submits its quiz, any number of times.
SubmitTwo == QuizPostFrom(LifeAnswers)

NextTwo == GenerateTwo \/ SubmitTwo \/ download_file \/ Switch

SpecTwo == Init /\ [][NextTwo]_vars

\* C14: whatever the interleaving of the two sessions' requests, the results
\* document a session that has submitted its quiz retrieves through
\* GET /download holds that session's own score and graded answers, those of
\* its last submission; a submission by the other session does not replace it.
C14_ResultsIsolation ==
    (req.op = "GET /download" /\ req.filename = ResultsPdf /\ Has(session, "user_answers"))
        => resp = SendFile(ResultsPdf,
                           create_pdf(session["user_answers"], session["score"],
                                      session["total"]))

====
